---- MODULE Spec2Model ----
(***************************************************************************)
(* A model of the concurrent crawl engine of crawler/crawler.go:           *)
(* crawler.Crawl (the result loop and the WaitGroup/frontier bookkeeping), *)
(* getPages (one fetch worker), collectLinks/formatURL (link extraction    *)
(* and normalisation) and mergePages/mergeErrors (fan-in).                 *)
(*                                                                         *)
(* Go's unbuffered channels are modelled as rendezvous: a send and the     *)
(* matching receive are one step that moves both goroutines.               *)
(***************************************************************************)
EXTENDS Naturals, Integers, Sequences, FiniteSets, Bags, TLC

VARIABLES
    site,       \* the input: raw seed URL, the fetch source, the output sink
    workerCount,\* crawler.workerCount
    wg,         \* Crawl's sync.WaitGroup counter
    cache,      \* Crawl's cache map: set of URL strings
    pending,    \* bag of URLs held by goroutines blocked in `newURLs <- url`
    closerPC,   \* the goroutine `defer close(newURLs); wg.Wait()`
    worker,     \* getPages goroutine of each worker
    pm,         \* mergePages forwarding goroutine of each worker
    em,         \* mergeErrors forwarding goroutine of each worker
    pagesOut,   \* merged page channel: "open" or "closed"
    errsOut,    \* merged error channel: "open" or "closed"
    rl,         \* Crawl's own goroutine: position of the for/select loop
    ret,        \* the value Crawl returned
    out,        \* the output sink: the records written so far, in order
    panicked,   \* the process has aborted with a panic
    gets,       \* history: bag of URL strings passed to httpClient.Get
    admits,     \* history: bag of URL strings admitted by the result loop
    proc        \* the process around Crawl: main's position and its environment

vars == <<site, workerCount, wg, cache, pending, closerPC, worker, pm, em,
          pagesOut, errsOut, rl, ret, out, panicked, gets, admits, proc>>

(***************************************************************************)
(* Bounds of the model.                                                    *)
(***************************************************************************)
MaxWorkers == 3
MeshSize == 3

\* resp.StatusCode >= 400
HttpErrorStatus == 400

(***************************************************************************)
(* URLs.  A *url.URL is a record; its path is the sequence of its          *)
(* segments ("/one/two" is <<"one","two">>, "/" is <<"">>, "" is <<>>).    *)
(***************************************************************************)
MkURL(scheme, host, path, frag) ==
    [scheme |-> scheme, host |-> host, path |-> path, frag |-> frag]

NoURL == MkURL("", "", <<>>, "")

\* (*url.URL).String(): the string form, as the tuple of its parts
String(u) == <<u.scheme, u.host, u.path, u.frag>>

\* (*url.URL).Hostname()
Hostname(u) == u.host

(***************************************************************************)
(* hrefs as they stand in the markup (and the raw seed URL).               *)
(*   abs  : scheme://host/path#frag   (also mailto:...)                    *)
(*   root : /path#frag                                                     *)
(*   rel  : ../ (ups times) name                                           *)
(*   frag : #frag                                                          *)
(*   bad  : a string url.Parse rejects (":x", "%zz")                       *)
(***************************************************************************)
MkHref(k, scheme, host, path, frag, ups) ==
    [k |-> k, scheme |-> scheme, host |-> host, path |-> path, frag |-> frag,
     ups |-> ups]

Abs(scheme, host, path, frag) == MkHref("abs", scheme, host, path, frag, 0)
Root(path, frag) == MkHref("root", "", "", path, frag, 0)
Rel(ups, name) == MkHref("rel", "", "", <<name>>, "", ups)
FragRef(frag) == MkHref("frag", "", "", <<>>, frag, 0)
BadRef == MkHref("bad", "", "", <<>>, "", 0)

\* the href that spells out an absolute URL
HrefOf(u) == Abs(u.scheme, u.host, u.path, u.frag)

\* url.Parse / (*url.URL).Parse fail
ParseFails(h) == h.k = "bad"

\* the directory of a path: everything up to the last "/"
DirOf(path) == IF Len(path) = 0 THEN <<>> ELSE SubSeq(path, 1, Len(path) - 1)

\* walking up: ".." segments beyond the root are dropped
WalkUp(dir, ups) ==
    IF ups >= Len(dir) THEN <<>> ELSE SubSeq(dir, 1, Len(dir) - ups)

\* pageURL.Parse(rawURL): reference resolution, for an href that parses
ResolveReference(base, h) ==
    CASE h.k = "abs"  -> MkURL(h.scheme, h.host, h.path, h.frag)
      [] h.k = "root" -> MkURL(base.scheme, base.host, h.path, h.frag)
      [] h.k = "rel"  -> MkURL(base.scheme, base.host,
                               WalkUp(DirOf(base.path), h.ups) \o h.path, h.frag)
      [] h.k = "frag" -> MkURL(base.scheme, base.host, base.path,
                               IF h.frag = "" THEN base.frag ELSE h.frag)
      [] OTHER        -> NoURL

\* an alternative formatURL that keeps the fragment
FormatURLKeepFragment(pageURL, h) ==
    IF ParseFails(h)
    THEN [panic |-> TRUE, links |-> <<>>]
    ELSE LET rel == ResolveReference(pageURL, h) IN
         IF rel.scheme = "http" \/ rel.scheme = "https"
         THEN [panic |-> FALSE, links |-> <<rel>>]
         ELSE [panic |-> FALSE, links |-> <<>>]

\* formatURL: panic, nil (no link) or the resolved URL without its fragment
formatURL(pageURL, h) ==
    IF ParseFails(h)
    THEN [panic |-> TRUE, links |-> <<>>]
    ELSE LET rel == ResolveReference(pageURL, h) IN
         IF rel.scheme = "http" \/ rel.scheme = "https"
         THEN [panic |-> FALSE, links |-> <<[rel EXCEPT !.frag = ""]>>]
         ELSE [panic |-> FALSE, links |-> <<>>]

\* collectLinks over the hrefs of the anchors of a body, in document order
RECURSIVE collectLinks(_, _)
collectLinks(pageURL, body) ==
    IF body = <<>>
    THEN [panic |-> FALSE, links |-> <<>>]
    ELSE LET first == formatURL(pageURL, Head(body))
             rest  == collectLinks(pageURL, Tail(body))
         IN  IF first.panic
             THEN [panic |-> TRUE, links |-> <<>>]
             ELSE [panic |-> rest.panic,
                   links |-> IF rest.panic THEN <<>> ELSE first.links \o rest.links]

(***************************************************************************)
(* Pages, errors and the serialised record.                                *)
(***************************************************************************)
MkPage(url, links) == [URL |-> url, Links |-> links]
NoPage == MkPage(NoURL, <<>>)

\* (*Page).Marshal(): the URL's string and the strings of the links
Marshal(p) == <<String(p.URL), [i \in 1..Len(p.Links) |-> String(p.Links[i])]>>

MkErr(kind, url) == [kind |-> kind, url |-> url]
NilErr == MkErr("nil", <<>>)

\* errors.Cause(err) == ErrHttpStatusCode
IsHttpStatus(e) == e.kind = "http-status"
\* err.(net.Error) && err.Timeout()
IsTimeout(e) == e.kind = "transport-timeout"

(***************************************************************************)
(* The collaborators: the fetch capability (httpClient.Get and the         *)
(* response body) and the output sink (io.Writer).  A site fixes the raw   *)
(* seed URL, what Get answers for each URL, and the write that fails       *)
(* (failAt = 0: the sink accepts every write).                             *)
(***************************************************************************)
MkResp(err, status, body, readErr) ==
    [err |-> err, status |-> status, body |-> body, readErr |-> readErr]

OK(body) == MkResp("none", 200, body, FALSE)
Status(code) == MkResp("none", code, <<>>, FALSE)
Timeout == MkResp("timeout", 0, <<>>, FALSE)
ConnErr == MkResp("other", 0, <<>>, FALSE)
BodyErr == MkResp("none", 200, <<>>, TRUE)

H == "h"
X == "x"
U(path) == MkURL("http", H, path, "")
K(path) == String(U(path))
Seed(path) == Abs("http", H, path, "")
L(name) == Root(<<name>>, "")
OffHost == Abs("http", X, <<>>, "")

MkSite(name, rawURL, pages, failAt) ==
    [name |-> name, rawURL |-> rawURL, pages |-> pages, failAt |-> failAt]

\* TestIntegration: every page links to one off-host URL and to every page
MeshBody(n) == <<OffHost>> \o [i \in 1..n |-> L(ToString(i))]
Mesh(n) ==
    MkSite("mesh", Seed(<<>>),
           [k \in {K(<<>>)} \cup {K(<<ToString(i)>>) : i \in 1..n} |-> OK(MeshBody(n))],
           0)

Sites == {
    Mesh(MeshSize),
    MkSite("nolinks", Seed(<<"a">>), (K(<<"a">>) :> OK(<<>>)), 0),
    MkSite("selflink", Seed(<<"a">>), (K(<<"a">>) :> OK(<<L("a")>>)), 0),
    MkSite("seedfrag", Abs("http", H, <<"a">>, "top"),
           (K(<<"a">>) :> OK(<<FragRef("x")>>)), 0),
    MkSite("seed500", Seed(<<"a">>), (K(<<"a">>) :> Status(500)), 0),
    MkSite("seedconnerr", Seed(<<"a">>), (K(<<"a">>) :> ConnErr), 0),
    MkSite("seedtimeout", Seed(<<"a">>), (K(<<"a">>) :> Timeout), 0),
    MkSite("badseed", BadRef, (K(<<"a">>) :> OK(<<>>)), 0),
    MkSite("offhost", Seed(<<"a">>),
           (K(<<"a">>) :> OK(<<L("b"), OffHost>>)) @@ (K(<<"b">>) :> OK(<<>>)), 0),
    MkSite("frags", Seed(<<"">>),
           (K(<<"">>) :> OK(<<Root(<<"a">>, "x"), Root(<<"a">>, "y"), L("a"),
                              Abs("http", H, <<"a">>, "z")>>))
           @@ (K(<<"a">>) :> OK(<<FragRef("z"), L("b")>>))
           @@ (K(<<"b">>) :> OK(<<>>)), 0),
    MkSite("relative", Seed(<<"one", "two">>),
           (K(<<"one", "two">>) :> OK(<<Rel(0, "test"), Rel(2, "test"),
                                        Abs("mailto", "", <<"t">>, ""),
                                        FragRef("test")>>))
           @@ (K(<<"one", "test">>) :> OK(<<Rel(1, "test")>>))
           @@ (K(<<"test">>) :> OK(<<>>)), 0),
    MkSite("badhref", Seed(<<"a">>),
           (K(<<"a">>) :> OK(<<L("b"), BadRef, L("c")>>))
           @@ (K(<<"b">>) :> OK(<<>>)) @@ (K(<<"c">>) :> OK(<<>>)), 0),
    MkSite("timeouts", Seed(<<"a">>),
           (K(<<"a">>) :> OK(<<L("b"), L("c")>>))
           @@ (K(<<"b">>) :> Timeout)
           @@ (K(<<"c">>) :> OK(<<L("d")>>))
           @@ (K(<<"d">>) :> Status(HttpErrorStatus)), 0),
    MkSite("fatals", Seed(<<"a">>),
           (K(<<"a">>) :> OK(<<L("b"), L("c")>>))
           @@ (K(<<"b">>) :> ConnErr)
           @@ (K(<<"c">>) :> BodyErr), 0),
    MkSite("writefail1", Seed(<<"a">>),
           (K(<<"a">>) :> OK(<<L("b"), OffHost>>)) @@ (K(<<"b">>) :> OK(<<>>)), 1),
    MkSite("writefail2", Seed(<<"a">>),
           (K(<<"a">>) :> OK(<<L("b"), L("c")>>))
           @@ (K(<<"b">>) :> OK(<<L("d")>>)) @@ (K(<<"c">>) :> OK(<<>>))
           @@ (K(<<"d">>) :> OK(<<>>)), 2),
    MkSite("writefailwide", Seed(<<"a">>),
           (K(<<"a">>) :> OK(<<L("b"), L("c"), L("d"), L("e")>>))
           @@ (K(<<"b">>) :> OK(<<>>)) @@ (K(<<"c">>) :> OK(<<>>))
           @@ (K(<<"d">>) :> OK(<<>>)) @@ (K(<<"e">>) :> OK(<<>>)), 2)
}

\* httpClient.Get(url.String()): the fragment is not part of the request
Get(u) ==
    LET k == String([u EXCEPT !.frag = ""]) IN
    IF k \in DOMAIN site.pages THEN site.pages[k] ELSE Status(404)

\* out.Write(page.Marshal()) fails
WriteFails == site.failAt # 0 /\ Len(out) + 1 = site.failAt

\* seedURL, err := url.Parse(rawURL)
seedURL == ResolveReference(NoURL, site.rawURL)

Workers == 1..workerCount

(***************************************************************************)
(* The state after construction: New(workerCount, httpClient) has been     *)
(* called and Crawl(rawURL, out) is about to run.                          *)
(***************************************************************************)
MkWorker(pc, url, page, err) == [pc |-> pc, url |-> url, page |-> page, err |-> err]
MkPM(pc, page) == [pc |-> pc, page |-> page]
MkEM(pc, err) == [pc |-> pc, err |-> err]
MkRL(pc, page, idx) == [pc |-> pc, page |-> page, idx |-> idx]

\* the environment of main: WORKERS (unset, not a number, or an integer)
\* and whether URL is set (its value is the site's raw seed URL)
MkEnv(workers, n, urlSet) == [workers |-> workers, n |-> n, urlSet |-> urlSet]
NoEnv == MkEnv("unset", 0, FALSE)
MkProc(pc, env) == [pc |-> pc, env |-> env]

\* Crawl called on a crawler built by New, as the tests and the benchmark do
Init ==
    /\ site \in Sites
    /\ workerCount \in 1..MaxWorkers
    /\ wg = 0
    /\ cache = {}
    /\ pending = EmptyBag
    /\ closerPC = "new"
    /\ worker = [w \in Workers |-> MkWorker("new", NoURL, NoPage, NilErr)]
    /\ pm = [w \in Workers |-> MkPM("new", NoPage)]
    /\ em = [w \in Workers |-> MkEM("new", NilErr)]
    /\ pagesOut = "open"
    /\ errsOut = "open"
    /\ rl = MkRL("start", NoPage, 0)
    /\ ret = NilErr
    /\ out = <<>>
    /\ panicked = FALSE
    /\ gets = EmptyBag
    /\ admits = EmptyBag
    /\ proc = MkProc("lib", NoEnv)

One(x) == SetToBag({x})

(***************************************************************************)
(* Crawl, lines 83-110: parse the seed, wg.Add(1), start the seed          *)
(* publisher, the closer, the workers and the two mergers.                 *)
(***************************************************************************)
CrawlStart ==
    /\ ~panicked
    /\ rl.pc = "start"
    /\ IF ParseFails(site.rawURL)
       THEN /\ rl' = MkRL("returned", NoPage, 0)
            /\ ret' = MkErr("url-parse", <<>>)
            /\ UNCHANGED <<wg, pending, closerPC, worker, pm, em>>
       ELSE /\ wg' = wg + 1
            /\ pending' = pending (+) One(seedURL)
            /\ closerPC' = "waiting"
            /\ worker' = [w \in Workers |-> MkWorker("recv", NoURL, NoPage, NilErr)]
            /\ pm' = [w \in Workers |-> MkPM("recv", NoPage)]
            /\ em' = [w \in Workers |-> MkEM("recv", NilErr)]
            /\ rl' = MkRL("select", NoPage, 0)
            /\ ret' = ret
    /\ UNCHANGED <<proc, site, workerCount, cache, pagesOut, errsOut, out, panicked,
                   gets, admits>>

(***************************************************************************)
(* The goroutines `newURLs <- url` (lines 93-95 and 129-131) meeting a     *)
(* worker's `range urls` (line 164).  A send on the closed channel panics. *)
(***************************************************************************)
Publish(u) ==
    /\ ~panicked
    /\ BagIn(u, pending)
    /\ IF closerPC = "closed"
       THEN /\ panicked' = TRUE
            /\ UNCHANGED <<pending, worker>>
       ELSE /\ \E w \in Workers :
                 /\ worker[w].pc = "recv"
                 /\ worker' = [worker EXCEPT ![w] = MkWorker("get", u, NoPage, NilErr)]
            /\ pending' = pending (-) One(u)
            /\ UNCHANGED panicked
    /\ UNCHANGED <<proc, site, workerCount, wg, cache, closerPC, pm, em, pagesOut,
                   errsOut, rl, ret, out, gets, admits>>

(***************************************************************************)
(* The closer goroutine, lines 97-100: wg.Wait() returns once the counter  *)
(* is zero, then the deferred close(newURLs) runs.                         *)
(***************************************************************************)
\* the closer without its wg.Wait()
CloserWakeWithoutWait ==
    /\ ~panicked
    /\ closerPC = "waiting"
    /\ closerPC' = "woken"
    /\ UNCHANGED <<proc, site, workerCount, wg, cache, pending, worker, pm, em, pagesOut,
                   errsOut, rl, ret, out, panicked, gets, admits>>

CloserWake ==
    /\ ~panicked
    /\ closerPC = "waiting"
    /\ wg = 0
    /\ closerPC' = "woken"
    /\ UNCHANGED <<proc, site, workerCount, wg, cache, pending, worker, pm, em, pagesOut,
                   errsOut, rl, ret, out, panicked, gets, admits>>

CloserClose ==
    /\ ~panicked
    /\ closerPC = "woken"
    /\ closerPC' = "closed"
    /\ UNCHANGED <<proc, site, workerCount, wg, cache, pending, worker, pm, em, pagesOut,
                   errsOut, rl, ret, out, panicked, gets, admits>>

(***************************************************************************)
(* getPages, lines 164-188: one iteration of the worker's loop, from the   *)
(* Get to the value it is about to send.                                   *)
(***************************************************************************)
\* the worker's state after the fetch of url
Fetched(url) ==
    LET resp == Get(url) IN
    IF resp.err # "none"
    THEN MkWorker("sendErrReturn", url, NoPage,
                  MkErr(IF resp.err = "timeout" THEN "transport-timeout"
                        ELSE "transport-other", String(url)))
    ELSE IF resp.status >= HttpErrorStatus
    THEN MkWorker("sendErrContinue", url, NoPage, MkErr("http-status", String(url)))
    ELSE IF resp.readErr
    THEN MkWorker("sendErrReturn", url, NoPage, MkErr("body-read", String(url)))
    ELSE MkWorker("sendPage", url, MkPage(url, collectLinks(url, resp.body).links),
                  NilErr)

\* formatURL panics while the links of url's body are collected
FetchPanics(url) ==
    LET resp == Get(url) IN
    /\ resp.err = "none"
    /\ resp.status < HttpErrorStatus
    /\ ~resp.readErr
    /\ collectLinks(url, resp.body).panic

WorkerGet(w) ==
    /\ ~panicked
    /\ worker[w].pc = "get"
    /\ gets' = gets (+) One(String(worker[w].url))
    /\ IF FetchPanics(worker[w].url)
       THEN /\ panicked' = TRUE
            /\ UNCHANGED worker
       ELSE /\ worker' = [worker EXCEPT ![w] = Fetched(worker[w].url)]
            /\ UNCHANGED panicked
    /\ UNCHANGED <<proc, site, workerCount, wg, cache, pending, closerPC, pm, em,
                   pagesOut, errsOut, rl, ret, out, admits>>

\* `range urls` ends on the closed frontier; the deferred close(errs) runs
WorkerStop(w) ==
    /\ ~panicked
    /\ worker[w].pc = "recv"
    /\ closerPC = "closed"
    /\ worker' = [worker EXCEPT ![w] = MkWorker("closePages", NoURL, NoPage, NilErr)]
    /\ UNCHANGED <<proc, site, workerCount, wg, cache, pending, closerPC, pm, em,
                   pagesOut, errsOut, rl, ret, out, panicked, gets, admits>>

\* the deferred close(pages), line 161
WorkerClosePages(w) ==
    /\ ~panicked
    /\ worker[w].pc = "closePages"
    /\ worker' = [worker EXCEPT ![w] = MkWorker("done", NoURL, NoPage, NilErr)]
    /\ UNCHANGED <<proc, site, workerCount, wg, cache, pending, closerPC, pm, em,
                   pagesOut, errsOut, rl, ret, out, panicked, gets, admits>>

ErrsClosed(w) == worker[w].pc \in {"closePages", "done"}
PagesClosed(w) == worker[w].pc = "done"

(***************************************************************************)
(* mergePages (lines 233-254) and mergeErrors (lines 257-278): one         *)
(* forwarding goroutine per source, and one goroutine that closes the      *)
(* merged channel once every forwarder is done.                            *)
(***************************************************************************)
\* `for page := range pageChan` receives what the worker sends on pages
PageMergerRecv(w) ==
    /\ ~panicked
    /\ pm[w].pc = "recv"
    /\ worker[w].pc = "sendPage"
    /\ pm' = [pm EXCEPT ![w] = MkPM("send", worker[w].page)]
    /\ worker' = [worker EXCEPT ![w] = MkWorker("recv", NoURL, NoPage, NilErr)]
    /\ UNCHANGED <<proc, site, workerCount, wg, cache, pending, closerPC, em, pagesOut,
                   errsOut, rl, ret, out, panicked, gets, admits>>

\* the range ends on the closed source: wg.Done()
PageMergerDone(w) ==
    /\ ~panicked
    /\ pm[w].pc = "recv"
    /\ PagesClosed(w)
    /\ pm' = [pm EXCEPT ![w] = MkPM("done", NoPage)]
    /\ UNCHANGED <<proc, site, workerCount, wg, cache, pending, closerPC, worker, em,
                   pagesOut, errsOut, rl, ret, out, panicked, gets, admits>>

\* the closing goroutine with wg.Add(1) in place of wg.Add(len(pageChans)):
\* it closes once the first forwarder is done
ClosePagesOutAfterFirst ==
    /\ ~panicked
    /\ pagesOut = "open"
    /\ rl.pc # "start"
    /\ \E w \in Workers : pm[w].pc = "done"
    /\ pagesOut' = "closed"
    /\ UNCHANGED <<proc, site, workerCount, wg, cache, pending, closerPC, worker, pm, em,
                   errsOut, rl, ret, out, panicked, gets, admits>>

\* wg.Wait() returned: close(out)
ClosePagesOut ==
    /\ ~panicked
    /\ pagesOut = "open"
    /\ rl.pc # "start"
    /\ \A w \in Workers : pm[w].pc = "done"
    /\ pagesOut' = "closed"
    /\ UNCHANGED <<proc, site, workerCount, wg, cache, pending, closerPC, worker, pm, em,
                   errsOut, rl, ret, out, panicked, gets, admits>>

\* `for err := range errChan` receives what the worker sends on errs; the
\* worker then goes on with its loop (line 173) or returns and closes errs
ErrMergerRecv(w) ==
    /\ ~panicked
    /\ em[w].pc = "recv"
    /\ worker[w].pc \in {"sendErrContinue", "sendErrReturn"}
    /\ em' = [em EXCEPT ![w] = MkEM("send", worker[w].err)]
    /\ worker' = [worker EXCEPT ![w] =
                    MkWorker(IF worker[w].pc = "sendErrContinue" THEN "recv"
                             ELSE "closePages", NoURL, NoPage, NilErr)]
    /\ UNCHANGED <<proc, site, workerCount, wg, cache, pending, closerPC, pm, pagesOut,
                   errsOut, rl, ret, out, panicked, gets, admits>>

ErrMergerDone(w) ==
    /\ ~panicked
    /\ em[w].pc = "recv"
    /\ ErrsClosed(w)
    /\ em' = [em EXCEPT ![w] = MkEM("done", NilErr)]
    /\ UNCHANGED <<proc, site, workerCount, wg, cache, pending, closerPC, worker, pm,
                   pagesOut, errsOut, rl, ret, out, panicked, gets, admits>>

CloseErrsOut ==
    /\ ~panicked
    /\ errsOut = "open"
    /\ rl.pc # "start"
    /\ \A w \in Workers : em[w].pc = "done"
    /\ errsOut' = "closed"
    /\ UNCHANGED <<proc, site, workerCount, wg, cache, pending, closerPC, worker, pm, em,
                   pagesOut, rl, ret, out, panicked, gets, admits>>

(***************************************************************************)
(* Crawl's for/select loop, lines 112-153.                                 *)
(***************************************************************************)
\* link.Hostname() == seedURL.Hostname(), line 124
\* (the filter left out: every link counts as same-host)
SameHostAlways(link) == TRUE
SameHost(link) == Hostname(link) = Hostname(seedURL)

\* _, ok := cache[link.String()], line 125
\* (the test of ok inverted)
SeenInverted(link) == String(link) \notin cache
Seen(link) == String(link) \in cache

\* the errors the loop prints and survives, lines 141-148
\* (the timeout case left out)
RecoverableOnlyHttpStatus(e) == IsHttpStatus(e)
Recoverable(e) == IsHttpStatus(e) \/ IsTimeout(e)

\* wg.Done(): a negative counter panics
Done ==
    IF wg = 0
    THEN /\ panicked' = TRUE
         /\ wg' = wg
    ELSE /\ wg' = wg - 1
         /\ panicked' = panicked

\* case page, ok := <-pageChan with ok, and the write, lines 114-121:
\* a variant that goes on after a failed write
RecvPageIgnoreWriteError(w) ==
    /\ ~panicked
    /\ rl.pc = "select"
    /\ pm[w].pc = "send"
    /\ pm' = [pm EXCEPT ![w] = MkPM("recv", NoPage)]
    /\ out' = IF WriteFails THEN out ELSE Append(out, Marshal(pm[w].page))
    /\ rl' = MkRL("links", pm[w].page, 1)
    /\ UNCHANGED <<proc, site, workerCount, wg, cache, pending, closerPC, worker, em,
                   pagesOut, errsOut, ret, panicked, gets, admits>>

\* case page, ok := <-pageChan with ok, and the write, lines 114-121
RecvPage(w) ==
    /\ ~panicked
    /\ rl.pc = "select"
    /\ pm[w].pc = "send"
    /\ pm' = [pm EXCEPT ![w] = MkPM("recv", NoPage)]
    /\ IF WriteFails
       THEN /\ rl' = MkRL("returned", NoPage, 0)
            /\ ret' = MkErr("output", String(pm[w].page.URL))
            /\ out' = out
       ELSE /\ out' = Append(out, Marshal(pm[w].page))
            /\ rl' = MkRL("links", pm[w].page, 1)
            /\ ret' = ret
    /\ UNCHANGED <<proc, site, workerCount, wg, cache, pending, closerPC, worker, em,
                   pagesOut, errsOut, panicked, gets, admits>>

\* one iteration of the loop over the links, without the wg.Add(1) of line 128
RegisterLinkNoAdd ==
    /\ ~panicked
    /\ rl.pc = "links"
    /\ rl.idx <= Len(rl.page.Links)
    /\ LET link == rl.page.Links[rl.idx] IN
       IF SameHost(link) /\ ~Seen(link)
       THEN /\ cache' = cache \cup {String(link)}
            /\ pending' = pending (+) One(link)
            /\ admits' = admits (+) One(String(link))
       ELSE UNCHANGED <<cache, pending, admits>>
    /\ wg' = wg
    /\ rl' = [rl EXCEPT !.idx = rl.idx + 1]
    /\ UNCHANGED <<proc, site, workerCount, closerPC, worker, pm, em, pagesOut, errsOut,
                   ret, out, panicked, gets>>

\* one iteration of the loop over the links, with `newURLs <- link` sent by the
\* loop itself rather than by a goroutine: the step needs a worker receiving
RegisterLinkBlockingSend ==
    /\ ~panicked
    /\ rl.pc = "links"
    /\ rl.idx <= Len(rl.page.Links)
    /\ LET link == rl.page.Links[rl.idx] IN
       IF SameHost(link) /\ ~Seen(link)
       THEN /\ cache' = cache \cup {String(link)}
            /\ wg' = wg + 1
            /\ admits' = admits (+) One(String(link))
            /\ \E w \in Workers :
                  /\ worker[w].pc = "recv"
                  /\ worker' = [worker EXCEPT ![w] = MkWorker("get", link, NoPage, NilErr)]
       ELSE UNCHANGED <<cache, wg, admits, worker>>
    /\ rl' = [rl EXCEPT !.idx = rl.idx + 1]
    /\ UNCHANGED <<proc, site, workerCount, pending, closerPC, pm, em, pagesOut, errsOut,
                   ret, out, panicked, gets>>

\* one iteration of the loop over the links, without the write to the cache
\* of line 126
RegisterLinkNoCacheWrite ==
    /\ ~panicked
    /\ rl.pc = "links"
    /\ rl.idx <= Len(rl.page.Links)
    /\ LET link == rl.page.Links[rl.idx] IN
       IF SameHost(link) /\ ~Seen(link)
       THEN /\ wg' = wg + 1
            /\ pending' = pending (+) One(link)
            /\ admits' = admits (+) One(String(link))
       ELSE UNCHANGED <<wg, pending, admits>>
    /\ cache' = cache
    /\ rl' = [rl EXCEPT !.idx = rl.idx + 1]
    /\ UNCHANGED <<proc, site, workerCount, closerPC, worker, pm, em, pagesOut, errsOut,
                   ret, out, panicked, gets>>

\* one iteration of `for _, link := range page.Links`, lines 123-134
RegisterLink ==
    /\ ~panicked
    /\ rl.pc = "links"
    /\ rl.idx <= Len(rl.page.Links)
    /\ LET link == rl.page.Links[rl.idx] IN
       IF SameHost(link) /\ ~Seen(link)
       THEN /\ cache' = cache \cup {String(link)}
            /\ wg' = wg + 1
            /\ pending' = pending (+) One(link)
            /\ admits' = admits (+) One(String(link))
       ELSE UNCHANGED <<cache, wg, pending, admits>>
    /\ rl' = [rl EXCEPT !.idx = rl.idx + 1]
    /\ UNCHANGED <<proc, site, workerCount, closerPC, worker, pm, em, pagesOut, errsOut,
                   ret, out, panicked, gets>>

\* the loop over the links is over: wg.Done(), line 152
PageDone ==
    /\ ~panicked
    /\ rl.pc = "links"
    /\ rl.idx > Len(rl.page.Links)
    /\ Done
    /\ rl' = MkRL("select", NoPage, 0)
    /\ UNCHANGED <<proc, site, workerCount, cache, pending, closerPC, worker, pm, em,
                   pagesOut, errsOut, ret, out, gets, admits>>

\* case err, ok := <-errChan with ok, where `break` skips the wg.Done()
RecvErrNoDone(w) ==
    /\ ~panicked
    /\ rl.pc = "select"
    /\ em[w].pc = "send"
    /\ em' = [em EXCEPT ![w] = MkEM("recv", NilErr)]
    /\ IF Recoverable(em[w].err)
       THEN UNCHANGED <<rl, ret>>
       ELSE /\ rl' = MkRL("returned", NoPage, 0)
            /\ ret' = em[w].err
    /\ UNCHANGED <<proc, site, workerCount, wg, panicked, cache, pending, closerPC, worker,
                   pm, pagesOut, errsOut, out, gets, admits>>

\* case err, ok := <-errChan with ok, where the fatal path marks the item
\* complete (wg.Done()) before `return err`
RecvErrDoneOnFatal(w) ==
    /\ ~panicked
    /\ rl.pc = "select"
    /\ em[w].pc = "send"
    /\ em' = [em EXCEPT ![w] = MkEM("recv", NilErr)]
    /\ Done
    /\ IF Recoverable(em[w].err)
       THEN UNCHANGED <<rl, ret>>
       ELSE /\ rl' = MkRL("returned", NoPage, 0)
            /\ ret' = em[w].err
    /\ UNCHANGED <<proc, site, workerCount, cache, pending, closerPC, worker, pm,
                   pagesOut, errsOut, out, gets, admits>>

\* case err, ok := <-errChan with ok, lines 136-152
RecvErr(w) ==
    /\ ~panicked
    /\ rl.pc = "select"
    /\ em[w].pc = "send"
    /\ em' = [em EXCEPT ![w] = MkEM("recv", NilErr)]
    /\ IF Recoverable(em[w].err)
       THEN /\ Done
            /\ UNCHANGED <<rl, ret>>
       ELSE /\ rl' = MkRL("returned", NoPage, 0)
            /\ ret' = em[w].err
            /\ UNCHANGED <<wg, panicked>>
    /\ UNCHANGED <<proc, site, workerCount, cache, pending, closerPC, worker, pm,
                   pagesOut, errsOut, out, gets, admits>>

\* case page, ok := <-pageChan with !ok: return nil, lines 115-117
RecvPagesClosed ==
    /\ ~panicked
    /\ rl.pc = "select"
    /\ pagesOut = "closed"
    /\ rl' = MkRL("returned", NoPage, 0)
    /\ ret' = NilErr
    /\ UNCHANGED <<proc, site, workerCount, wg, cache, pending, closerPC, worker, pm, em,
                   pagesOut, errsOut, out, panicked, gets, admits>>

\* case err, ok := <-errChan with !ok: return nil, lines 137-139
RecvErrsClosed ==
    /\ ~panicked
    /\ rl.pc = "select"
    /\ errsOut = "closed"
    /\ rl' = MkRL("returned", NoPage, 0)
    /\ ret' = NilErr
    /\ UNCHANGED <<proc, site, workerCount, wg, cache, pending, closerPC, worker, pm, em,
                   pagesOut, errsOut, out, panicked, gets, admits>>

(***************************************************************************)
(* The specifications.                                                     *)
(***************************************************************************)
Next ==
    \/ CrawlStart
    \/ \E u \in BagToSet(pending) : Publish(u)
    \/ CloserWake
    \/ CloserClose
    \/ \E w \in Workers : WorkerGet(w)
    \/ \E w \in Workers : WorkerStop(w)
    \/ \E w \in Workers : WorkerClosePages(w)
    \/ \E w \in Workers : PageMergerRecv(w)
    \/ \E w \in Workers : PageMergerDone(w)
    \/ ClosePagesOut
    \/ \E w \in Workers : ErrMergerRecv(w)
    \/ \E w \in Workers : ErrMergerDone(w)
    \/ CloseErrsOut
    \/ \E w \in Workers : RecvPage(w)
    \/ RegisterLink
    \/ PageDone
    \/ \E w \in Workers : RecvErr(w)
    \/ RecvPagesClosed
    \/ RecvErrsClosed

Spec == Init /\ [][Next]_vars

\* the Go scheduler runs every goroutine that can take a step
FairSpec == Spec /\ WF_vars(Next)

(***************************************************************************)
(* main (main.go, lines 13-29): the environment is read and checked, the   *)
(* crawler is built and Crawl is called; the process exits with status 1   *)
(* through log.Fatalf and with status 0 when main returns.  Once the       *)
(* process has exited no goroutine takes a step.                           *)
(***************************************************************************)
Envs ==
    {MkEnv("unset", 0, TRUE), MkEnv("nan", 0, TRUE), MkEnv("int", 1, FALSE)}
    \cup {MkEnv("int", n, TRUE) : n \in (-1)..MaxWorkers}

MainInit ==
    /\ site \in Sites
    /\ proc \in {MkProc("main", e) : e \in Envs}
    /\ workerCount = 0
    /\ wg = 0
    /\ cache = {}
    /\ pending = EmptyBag
    /\ closerPC = "new"
    /\ worker = [w \in {} |-> MkWorker("new", NoURL, NoPage, NilErr)]
    /\ pm = [w \in {} |-> MkPM("new", NoPage)]
    /\ em = [w \in {} |-> MkEM("new", NilErr)]
    /\ pagesOut = "open"
    /\ errsOut = "open"
    /\ rl = MkRL("start", NoPage, 0)
    /\ ret = NilErr
    /\ out = <<>>
    /\ panicked = FALSE
    /\ gets = EmptyBag
    /\ admits = EmptyBag

\* main.go lines 14-21 and 23: what makes main end in log.Fatalf before Crawl
EnvRejected(e) ==
    \/ e.workers = "unset"
    \/ e.workers = "nan"
    \/ e.n = 0
    \/ ~e.urlSet

\* main.go lines 14-26: up to the call of Crawl
MainStart ==
    /\ proc.pc = "main"
    /\ IF EnvRejected(proc.env)
       THEN /\ proc' = [proc EXCEPT !.pc = "exit1"]
            /\ UNCHANGED <<workerCount, worker, pm, em>>
       ELSE /\ proc' = [proc EXCEPT !.pc = "crawl"]
            /\ workerCount' = proc.env.n
            /\ worker' = [w \in 1..proc.env.n |-> MkWorker("new", NoURL, NoPage, NilErr)]
            /\ pm' = [w \in 1..proc.env.n |-> MkPM("new", NoPage)]
            /\ em' = [w \in 1..proc.env.n |-> MkEM("new", NilErr)]
    /\ UNCHANGED <<site, wg, cache, pending, closerPC, pagesOut, errsOut, rl, ret,
                   out, panicked, gets, admits>>

\* main.go lines 26-29: Crawl has returned
MainExit ==
    /\ proc.pc = "crawl"
    /\ ~panicked
    /\ rl.pc = "returned"
    /\ proc' = [proc EXCEPT !.pc = IF ret # NilErr THEN "exit1" ELSE "exit0"]
    /\ UNCHANGED <<site, workerCount, wg, cache, pending, closerPC, worker, pm, em,
                   pagesOut, errsOut, rl, ret, out, panicked, gets, admits>>

MainNext ==
    \/ MainStart
    \/ MainExit
    \/ (proc.pc = "crawl" /\ CrawlStart)
    \/ (proc.pc = "crawl" /\ (\E u \in BagToSet(pending) : Publish(u)))
    \/ (proc.pc = "crawl" /\ CloserWake)
    \/ (proc.pc = "crawl" /\ CloserClose)
    \/ (proc.pc = "crawl" /\ (\E w \in Workers : WorkerGet(w)))
    \/ (proc.pc = "crawl" /\ (\E w \in Workers : WorkerStop(w)))
    \/ (proc.pc = "crawl" /\ (\E w \in Workers : WorkerClosePages(w)))
    \/ (proc.pc = "crawl" /\ (\E w \in Workers : PageMergerRecv(w)))
    \/ (proc.pc = "crawl" /\ (\E w \in Workers : PageMergerDone(w)))
    \/ (proc.pc = "crawl" /\ ClosePagesOut)
    \/ (proc.pc = "crawl" /\ (\E w \in Workers : ErrMergerRecv(w)))
    \/ (proc.pc = "crawl" /\ (\E w \in Workers : ErrMergerDone(w)))
    \/ (proc.pc = "crawl" /\ CloseErrsOut)
    \/ (proc.pc = "crawl" /\ (\E w \in Workers : RecvPage(w)))
    \/ (proc.pc = "crawl" /\ RegisterLink)
    \/ (proc.pc = "crawl" /\ PageDone)
    \/ (proc.pc = "crawl" /\ (\E w \in Workers : RecvErr(w)))
    \/ (proc.pc = "crawl" /\ RecvPagesClosed)
    \/ (proc.pc = "crawl" /\ RecvErrsClosed)

MainSpec == MainInit /\ [][MainNext]_vars


(***************************************************************************)
(* What the claims speak about.                                            *)
(***************************************************************************)
Returned == rl.pc = "returned"
Succeeded == Returned /\ ret = NilErr

StripFragment(k) == <<k[1], k[2], k[3], "">>

\* the answer of Get is a page (status below 400, body read and closed)
IsPage(resp) == resp.err = "none" /\ resp.status < HttpErrorStatus /\ ~resp.readErr

\* the links of the page at u, as extracted; none when u yields no page
LinksAt(u) ==
    IF IsPage(Get(u)) /\ ~collectLinks(u, Get(u).body).panic
    THEN collectLinks(u, Get(u).body).links
    ELSE <<>>

Range(seq) == {seq[i] : i \in 1..Len(seq)}

\* the URLs reachable from the seed along links to the seed's host
RECURSIVE ReachFrom(_)
ReachFrom(S) ==
    LET more == S \cup {l \in UNION {Range(LinksAt(u)) : u \in S} : l.host = seedURL.host}
    IN  IF more = S THEN S ELSE ReachFrom(more)
Reach == ReachFrom({seedURL})

\* every reachable page is served without failure and no href is malformed
NoFetchFails ==
    /\ ~ParseFails(site.rawURL)
    /\ \A u \in Reach :
          /\ IsPage(Get(u))
          /\ ~collectLinks(u, Get(u).body).panic

\* the fetch source answers with pages, http-status errors and timeouts only
OnlyRecoverableFailures ==
    /\ ~ParseFails(site.rawURL)
    /\ site.failAt = 0
    /\ \A k \in DOMAIN site.pages :
          LET resp == site.pages[k] IN
          /\ resp.err \in {"none", "timeout"}
          /\ ~resp.readErr
          /\ \A i \in 1..Len(resp.body) : ~ParseFails(resp.body[i])

\* how many records of the output sink are for the page k (fragment aside)
RECURSIVE EmittedIn(_, _)
EmittedIn(seq, k) ==
    IF seq = <<>> THEN 0
    ELSE (IF StripFragment(Head(seq)[1]) = k THEN 1 ELSE 0) + EmittedIn(Tail(seq), k)

\* how many Get calls were for the page k (fragment aside)
RECURSIVE SumOver(_, _)
SumOver(b, keys) ==
    IF keys = {} THEN 0
    ELSE LET x == CHOOSE y \in keys : TRUE
         IN  CopiesIn(x, b) + SumOver(b, keys \ {x})
FetchedTimes(k) == SumOver(gets, {g \in BagToSet(gets) : StripFragment(g) = k})

(***************************************************************************)
(* C1: when no fetch fails, every same-host page reachable from the seed,  *)
(* the seed included, is fetched exactly once and emitted exactly once by  *)
(* a crawl that returned success; a link to the seed causes no second      *)
(* fetch.                                                                  *)
(***************************************************************************)
C1_EachPageExactlyOnce ==
    (Succeeded /\ NoFetchFails) =>
        \A u \in Reach :
            /\ EmittedIn(out, StripFragment(String(u))) = 1
            /\ FetchedTimes(StripFragment(String(u))) = 1

(***************************************************************************)
(* C2: when Crawl returns nil against a source of pages, http-status       *)
(* errors and timeouts, the counter is zero, the frontier is closed, no    *)
(* publish is pending, no worker holds a URL or a result and no merger     *)
(* holds an undelivered result.                                            *)
(***************************************************************************)
C2_SuccessMeansDrained ==
    (Succeeded /\ OnlyRecoverableFailures) =>
        /\ wg = 0
        /\ closerPC = "closed"
        /\ pending = EmptyBag
        /\ \A w \in Workers :
              /\ worker[w].pc \in {"closePages", "done"}
              /\ pm[w].pc # "send"
              /\ em[w].pc # "send"

(***************************************************************************)
(* C3: under fair scheduling Crawl eventually returns, whatever the site   *)
(* answers.                                                                *)
(***************************************************************************)
C3_CrawlReturns == <>Returned

\* with C3: unless a malformed href has aborted the process, Crawl returns
CrawlReturnsUnlessPanicked == <>(Returned \/ panicked)

(***************************************************************************)
(* C4: once a worker has emitted a fatal-class error (a Get failure that   *)
(* is no timeout, a body read/close failure), Crawl does not return        *)
(* success: what it returns is a fatal-class error.                        *)
(***************************************************************************)
FatalKinds == {"transport-other", "body-read"}
FatalEmitted ==
    \/ ret.kind \in FatalKinds
    \/ \E w \in Workers : em[w].pc = "send" /\ em[w].err.kind \in FatalKinds

C4_FatalErrorReturned ==
    (Returned /\ FatalEmitted) => ret.kind \in FatalKinds

(***************************************************************************)
(* C5: a step in which the result loop takes an http-status or timeout     *)
(* error from the merged errors decrements the counter by one, writes      *)
(* nothing, and leaves the loop in its select; and when the seed's fetch   *)
(* answers with a status >= 400, a returned Crawl has returned nil with    *)
(* nothing written.                                                        *)
(***************************************************************************)
TakesRecoverable(w) ==
    /\ rl.pc = "select"
    /\ em[w].pc = "send"
    /\ em[w].err.kind \in {"http-status", "transport-timeout"}
    /\ em'[w].pc = "recv"

SeedAnswersErrorStatus ==
    /\ ~ParseFails(site.rawURL)
    /\ Get(seedURL).err = "none"
    /\ Get(seedURL).status >= HttpErrorStatus

OffHostKey(k) == k[2] # Hostname(seedURL)

C6_OffHostNeverTraversed ==
    rl.pc # "start" =>
        /\ \A k \in cache : ~OffHostKey(k)
        /\ \A k \in BagToSet(admits) : ~OffHostKey(k)
        /\ \A u \in BagToSet(pending) : ~OffHostKey(String(u))
        /\ \A k \in BagToSet(gets) : ~OffHostKey(k)
        /\ \A w \in Workers :
              /\ worker[w].pc \notin {"new", "recv", "closePages", "done"}
                    => ~OffHostKey(String(worker[w].url))
              /\ pm[w].pc = "send" => ~OffHostKey(String(pm[w].page.URL))
        /\ \A i \in 1..Len(out) : ~OffHostKey(out[i][1])

C6_Witness ==
    /\ Succeeded
    /\ \E i \in 1..Len(out) : \E j \in 1..Len(out[i][2]) : OffHostKey(out[i][2][j])

(***************************************************************************)
(* C7: against an error-free source the set of Page URLs a completed Crawl *)
(* has emitted, and the set of links recorded in them, are functions of    *)
(* the site alone: the same for every worker count and interleaving.       *)
(***************************************************************************)
EmittedPages == {out[i][1] : i \in 1..Len(out)}
EmittedLinks == UNION {Range(out[i][2]) : i \in 1..Len(out)}

C7_SameSetsForEveryWorkerCount ==
    (Succeeded /\ NoFetchFails) =>
        /\ EmittedPages = {String(u) : u \in Reach}
        /\ EmittedLinks = {String(l) : l \in UNION {Range(LinksAt(u)) : u \in Reach}}

C7_Witness ==
    /\ site.name = "mesh"
    /\ workerCount = MaxWorkers
    /\ Succeeded
    /\ Len(out) = MeshSize + 1
    /\ Cardinality(EmittedLinks) = MeshSize + 1

(***************************************************************************)
(* C8: every link a worker extracts and every visited-set entry has an     *)
(* empty fragment and is left as it is by a second normalisation; a URL is *)
(* admitted at most once, whatever fragments the hrefs that name it carry, *)
(* and is fetched no more often than it was admitted (once more for the    *)
(* seed, which is published without being admitted).                       *)
(***************************************************************************)
Normalised(pageURL, l) ==
    /\ l.frag = ""
    /\ formatURL(pageURL, HrefOf(l)).links = <<l>>

PagesInFlight ==
    {worker[w].page : w \in {v \in Workers : worker[v].pc = "sendPage"}}
    \cup {pm[w].page : w \in {v \in Workers : pm[v].pc = "send"}}
    \cup (IF rl.pc = "links" THEN {rl.page} ELSE {})

C8_FragmentsDedup ==
    /\ \A p \in PagesInFlight : \A l \in Range(p.Links) : Normalised(p.URL, l)
    /\ \A k \in cache : k[4] = ""
    /\ \A u \in BagToSet(pending) : u = seedURL \/ u.frag = ""
    /\ \A k \in BagToSet(admits) : CopiesIn(k, admits) = 1 /\ k[4] = ""
    /\ \A k \in {StripFragment(g) : g \in BagToSet(gets)} :
          FetchedTimes(k) <= CopiesIn(k, admits)
                             + (IF k = StripFragment(String(seedURL)) THEN 1 ELSE 0)

C8_Witness ==
    /\ site.name = "frags"
    /\ Succeeded
    /\ Len(out) = 3
    /\ CopiesIn(K(<<"a">>), admits) = 1
    /\ FetchedTimes(K(<<"a">>)) = 1
    /\ Len(out[1][2]) = 4

(***************************************************************************)
(* C9: an href that cannot be resolved never aborts the process.           *)
(***************************************************************************)
C9_MalformedHrefIsSoft ==
    ~(panicked /\ \E w \in Workers : worker[w].pc = "get" /\ FetchPanics(worker[w].url))

(***************************************************************************)
(* C10: the step in which the write of a Page fails returns the write      *)
(* error and admits nothing, publishes nothing and leaves the counter      *)
(* alone; from then on the loop takes no result and changes nothing.       *)
(***************************************************************************)
TakesPage(w) == rl.pc = "select" /\ pm[w].pc = "send" /\ pm'[w].pc = "recv"

C10_WriteFailureReturns ==
    [][/\ \A w \in Workers :
            (TakesPage(w) /\ WriteFails) =>
                /\ rl'.pc = "returned"
                /\ ret' = MkErr("output", String(pm[w].page.URL))
                /\ UNCHANGED <<wg, cache, pending, admits, out>>
       /\ (Returned /\ ret.kind = "output") =>
                /\ UNCHANGED <<rl, ret, wg, cache, admits, out>>
                /\ \A u \in BagToSet(pending') : CopiesIn(u, pending') <= CopiesIn(u, pending)
                /\ \A w \in Workers :
                      /\ pm[w].pc = "send" => pm'[w] = pm[w]
                      /\ em[w].pc = "send" => em'[w] = em[w]]_vars

C10_Witness ==
    /\ site.name = "writefail2"
    /\ Returned
    /\ ret.kind = "output"
    /\ Len(out) = 1
    /\ wg > 0
    /\ \E w \in Workers : pm[w].pc = "send"

(***************************************************************************)
(* C11: a WORKERS value that is zero or negative, or a seed URL that does  *)
(* not parse, makes main end with status 1 and without any Get; main never *)
(* ends with status 0 on a non-positive worker count.                      *)
(***************************************************************************)
BadConfiguration ==
    /\ proc.pc # "lib"
    /\ proc.env.workers = "int"
    /\ proc.env.urlSet
    /\ (proc.env.n <= 0 \/ ParseFails(site.rawURL))

C11_ConfigErrorReported ==
    BadConfiguration =>
        /\ gets = EmptyBag
        /\ proc.pc # "exit0"

(***************************************************************************)
(* C12: a step that starts a publish task adds one to the counter in the   *)
(* same handling, the counter is decremented for a Page only when all its  *)
(* links have been handled, and so the counter is above zero (at least the *)
(* number of publish tasks) whenever a publish task still holds its URL.   *)
(***************************************************************************)
C12_IncrementBeforeDecrement ==
    /\ [][/\ BagCardinality(pending') > BagCardinality(pending) =>
                /\ BagCardinality(pending') = BagCardinality(pending) + 1
                /\ wg' = wg + 1
          /\ (rl.pc = "links" /\ wg' < wg) => rl.idx > Len(rl.page.Links)]_vars
    /\ [](wg >= BagCardinality(pending))
    /\ [](pending # EmptyBag => wg > 0)

C12_Witness ==
    /\ site.name = "mesh"
    /\ rl.pc = "select"
    /\ Len(out) = 1
    /\ BagCardinality(pending) = MeshSize
    /\ wg = MeshSize

(***************************************************************************)
(* C13: the frontier is closed by the closer alone, from the state in      *)
(* which wg.Wait() has returned, with the counter at zero; once closed it  *)
(* stays closed; and no publish task holds a URL when it is closed, so no  *)
(* send on the closed channel happens.                                     *)
(***************************************************************************)
C13_FrontierClosedOnceAtZero ==
    /\ [][/\ (closerPC' = "closed" /\ closerPC # "closed") =>
                (closerPC = "woken" /\ wg = 0 /\ pending = EmptyBag)
          /\ closerPC = "closed" => closerPC' = "closed"]_vars
    /\ [](closerPC \in {"woken", "closed"} => (wg = 0 /\ pending = EmptyBag))
    /\ [](panicked => closerPC # "closed")

C13_Witness ==
    /\ closerPC = "closed"
    /\ wg = 0
    /\ Len(out) >= 2
    /\ BagCardinality(admits) >= 1
    /\ ~panicked

(***************************************************************************)
(* C14: from the start of the crawl until Crawl returns, the counter       *)
(* equals the number of unresolved items: URLs held by publish tasks, URLs *)
(* being fetched, values a worker is sending, values a merger holds, and   *)
(* the Page the result loop is handling; it is 1 after the start and each  *)
(* result taken by the result loop lowers it by exactly one.               *)
(***************************************************************************)
Unresolved ==
    BagCardinality(pending)
    + Cardinality({w \in Workers :
                     worker[w].pc \in {"get", "sendPage", "sendErrContinue", "sendErrReturn"}})
    + Cardinality({w \in Workers : pm[w].pc = "send"})
    + Cardinality({w \in Workers : em[w].pc = "send"})
    + (IF rl.pc = "links" THEN 1 ELSE 0)

C14_CounterCountsUnresolved ==
    /\ [](rl.pc \in {"select", "links"} => (wg >= 0 /\ wg = Unresolved))
    /\ [][(rl.pc = "start" /\ rl'.pc = "select") => wg' = 1]_vars
    /\ [][wg' < wg => wg' = wg - 1]_vars

C14_Witness ==
    /\ rl.pc = "links"
    /\ pending # EmptyBag
    /\ \E w \in Workers : worker[w].pc = "get"
    /\ wg >= 3

(***************************************************************************)
(* C15: a worker has closed its outputs only when the frontier was closed  *)
(* and drained, whatever its fetches answered.                             *)
(***************************************************************************)
C15_WorkerStopsOnlyAfterClose ==
    \A w \in Workers :
        worker[w].pc \in {"closePages", "done"} =>
            (closerPC = "closed" /\ pending = EmptyBag)

(***************************************************************************)
(* C16: the fetch of a URL a worker has taken leaves the worker sending    *)
(* exactly one value: an Error when Get fails, when the status is >= 400   *)
(* or when the body cannot be read, otherwise the Page of the fetched URL  *)
(* with the extracted links in document order; and that value is handed    *)
(* over once, to the merger of its kind.                                   *)
(***************************************************************************)
Emission(url) ==
    LET resp == Get(url) IN
    IF resp.err = "timeout" THEN [kind |-> "err", page |-> NoPage,
                                  err |-> MkErr("transport-timeout", String(url))]
    ELSE IF resp.err # "none" THEN [kind |-> "err", page |-> NoPage,
                                    err |-> MkErr("transport-other", String(url))]
    ELSE IF resp.status >= HttpErrorStatus
    THEN [kind |-> "err", page |-> NoPage, err |-> MkErr("http-status", String(url))]
    ELSE IF resp.readErr
    THEN [kind |-> "err", page |-> NoPage, err |-> MkErr("body-read", String(url))]
    ELSE [kind |-> "page", page |-> MkPage(url, collectLinks(url, resp.body).links),
          err |-> NilErr]

SendsErr(w) == worker[w].pc \in {"sendErrContinue", "sendErrReturn"}

EmitsOneValue ==
    /\ \A w \in Workers :
          (worker[w].pc = "get" /\ gets' = gets (+) One(String(worker[w].url))
               /\ \A v \in Workers \ {w} : worker'[v] = worker[v]) =>
              LET e == Emission(worker[w].url) IN
              /\ e.kind = "page" => (worker'[w].pc = "sendPage" /\ worker'[w].page = e.page)
              /\ e.kind = "err" =>
                    (worker'[w].pc \in {"sendErrContinue", "sendErrReturn"}
                     /\ worker'[w].err = e.err)
    /\ \A w \in Workers :
          (worker[w].pc = "sendPage" /\ worker'[w] # worker[w]) =>
              /\ pm'[w] = MkPM("send", worker[w].page)
              /\ worker'[w].pc = "recv"
    /\ \A w \in Workers :
          (SendsErr(w) /\ worker'[w] # worker[w]) =>
              /\ em'[w] = MkEM("send", worker[w].err)
              /\ worker'[w].pc \in {"recv", "closePages"}

C16_WorkerEmitsExactlyOne == [][EmitsOneValue]_vars

EmitsOneValueUnlessPanics == [][panicked' \/ EmitsOneValue]_vars

(***************************************************************************)
(* C17: a merged channel is closed once, and only when every source is     *)
(* closed and every forwarder has ended holding nothing; a forwarder takes *)
(* exactly the value its source sends and gives it up only to the result   *)
(* loop, which receives that same value; with no source at all the merged  *)
(* channels can be closed as soon as they exist.                           *)
(***************************************************************************)
MergedClosedAfterSources ==
    /\ pagesOut = "closed" =>
          \A w \in Workers : worker[w].pc = "done" /\ pm[w] = MkPM("done", NoPage)
    /\ errsOut = "closed" =>
          \A w \in Workers : /\ worker[w].pc \in {"closePages", "done"}
                             /\ em[w] = MkEM("done", NilErr)

NoSourceClosesAtOnce ==
    (Workers = {} /\ rl.pc # "start" /\ ~panicked) =>
        /\ pagesOut = "open" => ENABLED ClosePagesOut
        /\ errsOut = "open" => ENABLED CloseErrsOut

ForwardsEachValueOnce ==
    /\ pagesOut = "closed" => pagesOut' = "closed"
    /\ errsOut = "closed" => errsOut' = "closed"
    /\ \A w \in Workers :
          /\ (pm[w].pc # "send" /\ pm'[w].pc = "send") =>
                (worker[w].pc = "sendPage" /\ pm'[w].page = worker[w].page)
          /\ (pm[w].pc = "send" /\ pm'[w] # pm[w]) =>
                /\ pm'[w] = MkPM("recv", NoPage)
                /\ rl.pc = "select"
                /\ \/ rl' = MkRL("links", pm[w].page, 1)
                   \/ (rl'.pc = "returned" /\ ret' = MkErr("output", String(pm[w].page.URL)))
                /\ \A v \in Workers \ {w} : pm'[v] = pm[v]
          /\ (em[w].pc # "send" /\ em'[w].pc = "send") =>
                (SendsErr(w) /\ em'[w].err = worker[w].err)
          /\ (em[w].pc = "send" /\ em'[w] # em[w]) =>
                /\ em'[w] = MkEM("recv", NilErr)
                /\ rl.pc = "select"
                /\ \/ (rl'.pc = "returned" /\ ret' = em[w].err)
                   \/ (rl' = rl /\ wg' = wg - 1)
                /\ \A v \in Workers \ {w} : em'[v] = em[v]

C17_FanIn ==
    /\ [](MergedClosedAfterSources /\ NoSourceClosesAtOnce)
    /\ [][ForwardsEachValueOnce]_vars

C17_Witness ==
    /\ workerCount >= 2
    /\ pagesOut = "closed"
    /\ errsOut = "closed"
    /\ Len(out) >= 2
    /\ \E k \in BagToSet(gets) : Get(MkURL(k[1], k[2], k[3], k[4])).status >= HttpErrorStatus

MergeOfNoSources ==
    /\ Workers = {}
    /\ pagesOut = "closed"
    /\ errsOut = "closed"

(***************************************************************************)
(* C18: while it handles a Page the result loop can always take its next   *)
(* step (the next link, or the decrement), whatever the workers and the    *)
(* publish tasks are doing; and before Crawl returns, in a running         *)
(* process, some task can always take a step.                              *)
(***************************************************************************)
C18_PublishNeverBlocksLoop ==
    /\ (rl.pc = "links" /\ ~panicked) => ENABLED (RegisterLink \/ PageDone)
    /\ (rl.pc \in {"select", "links"} /\ ~panicked) => ENABLED Next

C18_Witness ==
    /\ workerCount = 1
    /\ rl.pc = "links"
    /\ worker[1].pc = "sendPage"
    /\ pm[1].pc = "send"
    /\ pending # EmptyBag

(***************************************************************************)
(* C19: the closer and the merged channels only move forward, and once the *)
(* counter has reached zero and the frontier is closed the counter is not  *)
(* raised again, nothing is added to the cache or handed to a publish      *)
(* task, and no worker takes a URL or starts a Get.                        *)
(***************************************************************************)
CloserRank == CASE closerPC = "new" -> 0
                [] closerPC = "waiting" -> 1
                [] closerPC = "woken" -> 2
                [] closerPC = "closed" -> 3

Terminated == closerPC = "closed" /\ pagesOut = "closed" /\ errsOut = "closed"

OnlyForward ==
    /\ CloserRank' >= CloserRank
    /\ pagesOut = "closed" => pagesOut' = "closed"
    /\ errsOut = "closed" => errsOut' = "closed"
    /\ closerPC \in {"woken", "closed"} =>
          /\ wg' <= wg
          /\ cache' = cache
          /\ admits' = admits
          /\ pending' = pending
          /\ gets' = gets
          /\ \A w \in Workers : worker'[w].pc # "get"

C19_OnlyForward == [][OnlyForward]_vars

C19_Witness ==
    /\ Terminated
    /\ rl.pc = "returned"
    /\ Len(out) >= 3
    /\ BagCardinality(admits) >= 2

(***************************************************************************)
(* C20: handling a link, the result loop admits it (adds its string to the *)
(* cache, raises the counter, starts a publish task) exactly when its host *)
(* is the seed's and its string is not in the cache; otherwise nothing     *)
(* changes; the cache only grows, and only in such a step; and no string   *)
(* is admitted twice.                                                      *)
(***************************************************************************)
HandlesLink == rl.pc = "links" /\ rl'.pc = "links" /\ rl'.idx = rl.idx + 1

AdmitsIffNew ==
    /\ HandlesLink =>
          LET link == rl.page.Links[rl.idx]
              key == <<link.scheme, link.host, link.path, link.frag>>
          IN  IF link.host = seedURL.host /\ key \notin cache
              THEN /\ cache' = cache \cup {key}
                   /\ wg' = wg + 1
                   /\ pending' = pending (+) One(link)
                   /\ admits' = admits (+) One(key)
              ELSE UNCHANGED <<cache, wg, pending, admits>>
    /\ cache \subseteq cache'
    /\ (cache' # cache \/ admits' # admits) => HandlesLink

C20_AdmitOnce ==
    /\ [][AdmitsIffNew]_vars
    /\ [](\A k \in BagToSet(admits) : CopiesIn(k, admits) = 1 /\ k \in cache)

C20_Witness ==
    /\ rl.pc = "links"
    /\ rl.idx > 1
    /\ String(rl.page.URL) # String(seedURL)
    /\ Hostname(rl.page.Links[rl.idx - 1]) = Hostname(seedURL)
    /\ CopiesIn(String(rl.page.Links[rl.idx - 1]), admits) = 1
    /\ BagCardinality(admits) >= 2

(***************************************************************************)
(* C21: once Crawl has returned an error, the item that caused the return  *)
(* stays counted: the counter is one more than the items still unresolved, *)
(* it never changes again, the closer stays in wg.Wait() and the frontier  *)
(* stays open; and a state is reached in which nothing can move any more   *)
(* while a publish task, a worker and a merger are each blocked on a send. *)
(***************************************************************************)
\* a return from inside the select loop (lines 119-121 and 149), not the
\* refusal of an unparsable seed URL (lines 83-86)
ReturnedError ==
    /\ rl.pc = "returned"
    /\ ret.kind \in {"transport-other", "body-read", "output"}

C21_FatalReturnLeaks ==
    /\ [](ReturnedError => (wg > 0 /\ wg = Unresolved + 1 /\ closerPC = "waiting"))
    /\ [][ReturnedError =>
            (wg' = wg /\ closerPC' = closerPC /\ rl' = rl /\ ret' = ret)]_vars

C21_Witness ==
    /\ ReturnedError
    /\ ~panicked
    /\ pending # EmptyBag
    /\ \E w \in Workers : worker[w].pc = "sendPage" /\ pm[w].pc = "send"
    /\ closerPC = "waiting"
    /\ ~ENABLED Next

====
